---- MODULE Spec2Model ----
(***************************************************************************)
(* kb2xbox: a keyboard is read through evdev and translated into events of *)
(* one or more virtual XBox controllers (uinput devices).                  *)
(*                                                                         *)
(* The model follows src/kb2xbox.py: XBoxController.parseFile builds the   *)
(* mapping, XBoxController.fire translates one keyboard event, and main    *)
(* waits for all keys to be released, constructs and creates the           *)
(* controllers, grabs the keyboard and runs the dispatch loop with its     *)
(* Ctrl+F1 (toggle grab) and Ctrl+Escape (quit) chords.                    *)
(***************************************************************************)
EXTENDS Integers, Sequences, FiniteSets, TLC

VARIABLES
    pc,                   \* where main is: "wait", "construct", "create", "loop",
                          \*   "return0", "return1", "crashed"
    configs,              \* argv.configs: one parsed config file per controller
    evbits,               \* the key codes the keyboard device supports (devkb.has)
    held,                 \* keys whose dev.value is nonzero (physically down)
    controllers,          \* the list `controllers` of main
    sent,                 \* per controller: the events its uinput got in the last cycle
    e,                    \* the event of the last dispatch cycle (NoEvent before the first)
    kbgrab,               \* whether the keyboard device is grabbed (devkb.grab/ungrab)
    grab,                 \* main's flag `grab`
    leftctrl,             \* main's flag `leftctrl`
    f1,                   \* main's flag `f1`
    doGrabChangeReached,  \* main's flag `doGrabChangeReached`
    run,                  \* main's flag `run`
    chord,                \* observer of the current hold of the modifier key
    calls,                \* the controllers whose fire was called in the last cycle, in order
    hist                  \* observer of the run: whether capture was ever off, and the
                          \*   key pressed last for each axis of each controller

vars == <<pc, configs, evbits, held, controllers, sent, e, kbgrab, grab,
          leftctrl, f1, doGrabChangeReached, run, chord,
                   calls, hist>>

----------------------------------------------------------------------------
(* Bounds of the model *)

\* The longest key list of one config line in the parseFile specification.
MaxKeys == 49

----------------------------------------------------------------------------
(* The evdev codes the model uses *)

\* InputAbsInfo(minimum=-1000, maximum=1000)
AbsMin == -1000
AbsMax == 1000

\* Capabilities the code registry defines, by type (evjs.is_defined, evjs.type).
AbsCaps == {"ABS_X", "ABS_Y"}
BtnCaps == {"BTN_A", "BTN_B"}
DefinedCaps == AbsCaps \cup BtnCaps

CapType(evjs) == IF evjs \in AbsCaps THEN "EV_ABS" ELSE "EV_KEY"

\* The keys the user touches while the program runs.
Keys == {"KEY_LEFTCTRL", "KEY_F1", "KEY_ESC", "KEY_SPACE", "KEY_LEFT", "KEY_RIGHT"}

\* The keys of the keyboard device; KEY_F24 is a key it does not have.
KbKeys == Keys \cup {"KEY_ENTER"}

\* The two config files of the run that is modelled.  A line is its name and
\* the comma-separated key list of its value.
Pad1 == << [var |-> "NAME",      keys |-> <<"Pad1">>],
           [var |-> "BTN_A",     keys |-> <<"KEY_SPACE">>],
           [var |-> "ABS_X",     keys |-> <<"KEY_LEFT", "KEY_RIGHT">>] >>
Pad2 == << [var |-> "VENDOR",    keys |-> <<"0x45e">>],
           [var |-> "BTN_BOGUS", keys |-> <<"KEY_SPACE">>],
           [var |-> "BTN_B",     keys |-> <<"KEY_LEFTCTRL">>],
           [var |-> "ABS_Y",     keys |-> <<"KEY_LEFT", "KEY_F24", "KEY_RIGHT">>] >>
Configs == <<Pad1, Pad2>>

----------------------------------------------------------------------------
(* XBoxController.parseFile *)

\* A variant of Steps that spaces n + 1 points instead of n steps.
StepsOfPoints(n) == (AbsMax - AbsMin) \div (n + 1)

\* steps = (ai.maximum - ai.minimum) // len(keys)
Steps(n) == (AbsMax - AbsMin) \div n

\* A variant of StepIndex that forgets to skip the midpoint index.
StepIndexNoSkip(i, n) == i

\* if i >= len(keys) // 2: i += 1
StepIndex(i, n) == IF i >= n \div 2 THEN i + 1 ELSE i

\* mapping[evkb, 1] for the key at (0-based) index i of a line of n keys
PressValue(evjs, i, n) ==
    IF CapType(evjs) = "EV_ABS" THEN AbsMin + Steps(n) * StepIndex(i, n) ELSE 1

\* evkb is not None and evkb.is_defined and devkb.has(evkb)
HasKey(kb, k) == k \in kb

\* mapping[evkb] = evjs; mapping[evkb, 0] = 0; mapping[evkb, 1] = ...
\* (a dict assignment: a key bound before is rebound, last declaration wins)
Bind(m, k, evjs, v1) ==
    (k :> [js |-> evjs, val |-> (0 :> 0) @@ (1 :> v1)]) @@ m

\* for i,k in enumerate(keys): ...
RECURSIVE ParseKeys(_, _, _, _, _)
ParseKeys(m, evjs, keys, i, kb) ==
    IF i >= Len(keys) THEN m
    ELSE LET k == keys[i + 1]
             m2 == IF HasKey(kb, k)
                   THEN Bind(m, k, evjs, PressValue(evjs, i, Len(keys)))
                   ELSE m
         IN  ParseKeys(m2, evjs, keys, i + 1, kb)

\* One line var=val of the config file.
ParseLine(m, line, kb) ==
    IF line.var \in {"NAME", "VENDOR", "PRODUCT", "VERSION"} THEN m
    ELSE IF line.var \in DefinedCaps THEN ParseKeys(m, line.var, line.keys, 0, kb)
    ELSE m

\* for x in fp: ...; return mapping
RECURSIVE ParseLines(_, _, _, _)
ParseLines(m, lines, j, kb) ==
    IF j > Len(lines) THEN m
    ELSE ParseLines(ParseLine(m, lines[j], kb), lines, j + 1, kb)

ParseFile(lines, kb) == ParseLines(<<>>, lines, 1, kb)

\* XBoxController.__init__: the mapping, value = defaultdict(int), no uinput yet
NewController(lines, kb) ==
    [mapping |-> ParseFile(lines, kb),
     value   |-> [c \in DefinedCaps |-> 0],
     uinput  |-> FALSE]

----------------------------------------------------------------------------
(* XBoxController.fire *)

\* The value of `e` before the first event is read.
NoEvent == [code |-> "NONE", value |-> 0]

SynReport == [code |-> "SYN_REPORT", value |-> 0]

\* e.value == 2: repeat code
IsRepeat(ev) == ev.value = 2

\* A variant of Suppressed that never suppresses a release.
SuppressedNever(c, ev) == FALSE

\* A variant of Suppressed that forgets the EV_ABS test.
SuppressedAnyType(c, ev) ==
    /\ ev.value = 0
    /\ c.mapping[ev.code].val[1] # c.value[c.mapping[ev.code].js]

\* A variant of Suppressed with the comparison inverted (== for !=).
SuppressedWhenOwn(c, ev) ==
    /\ CapType(c.mapping[ev.code].js) = "EV_ABS"
    /\ ev.value = 0
    /\ c.mapping[ev.code].val[1] = c.value[c.mapping[ev.code].js]

\* The release of an EV_ABS key whose press value is not the stored value.
Suppressed(c, ev) ==
    /\ CapType(c.mapping[ev.code].js) = "EV_ABS"
    /\ ev.value = 0
    /\ c.mapping[ev.code].val[1] # c.value[c.mapping[ev.code].js]

\* A variant of fire that forwards an autorepeat as a press.
FireRepeatAsPress(c, ev) ==
    IF ev.code \in DOMAIN c.mapping
    THEN IF Suppressed(c, ev) THEN [ctl |-> c, out |-> <<>>]
         ELSE LET js == c.mapping[ev.code].js
                  v  == c.mapping[ev.code].val[IF ev.value = 0 THEN 0 ELSE 1]
              IN  [ctl |-> [c EXCEPT !.value[js] = v],
                   out |-> << [code |-> js, value |-> v], SynReport >>]
    ELSE [ctl |-> c, out |-> <<>>]

\* A variant of fire that sends the event and forgets to store its value.
FireNoStore(c, ev) ==
    IF ev.code \in DOMAIN c.mapping
    THEN IF IsRepeat(ev) THEN [ctl |-> c, out |-> <<>>]
         ELSE IF Suppressed(c, ev) THEN [ctl |-> c, out |-> <<>>]
         ELSE LET js == c.mapping[ev.code].js
                  v  == c.mapping[ev.code].val[ev.value]
              IN  [ctl |-> c, out |-> << [code |-> js, value |-> v], SynReport >>]
    ELSE [ctl |-> c, out |-> <<>>]

\* fire(e): the controller afterwards and what uinput.send_events got
Fire(c, ev) ==
    IF ev.code \in DOMAIN c.mapping
    THEN IF IsRepeat(ev) THEN [ctl |-> c, out |-> <<>>]
         ELSE IF Suppressed(c, ev) THEN [ctl |-> c, out |-> <<>>]
         ELSE LET js == c.mapping[ev.code].js
                  v  == c.mapping[ev.code].val[ev.value]
              IN  [ctl |-> [c EXCEPT !.value[js] = v],
                   out |-> << [code |-> js, value |-> v], SynReport >>]
    ELSE [ctl |-> c, out |-> <<>>]

----------------------------------------------------------------------------
(* main: start-up *)

\* A variant of anyKeyPressed that always returns False.
anyKeyPressedNever == FALSE

\* anyKeyPressed(fd): some key of the device has a nonzero value
anyKeyPressed == \E c \in evbits : c \in held

\* The user presses or releases a key while main polls; only the device's key
\* state changes, the dispatch loop is not running yet.
KbChange(k) ==
    /\ pc = "wait"
    /\ k \in evbits
    /\ held' = IF k \in held THEN held \ {k} ELSE held \cup {k}
    /\ UNCHANGED <<pc, configs, evbits, controllers, sent, e, kbgrab, grab,
                   leftctrl, f1, doGrabChangeReached, run, chord,
                   calls, hist>>

\* while anyKeyPressed(fd): time.sleep(0.01)
PollSleep ==
    /\ pc = "wait"
    /\ anyKeyPressed
    /\ UNCHANGED vars

\* The loop ends: devkb = libevdev.Device(fd); controllers = list()
PollDone ==
    /\ pc = "wait"
    /\ ~anyKeyPressed
    /\ pc' = "construct"
    /\ UNCHANGED <<configs, evbits, held, controllers, sent, e, kbgrab, grab,
                   leftctrl, f1, doGrabChangeReached, run, chord,
                   calls, hist>>

\* for f in argv.configs: controllers.append(XBoxController(f, devkb))
Construct ==
    /\ pc = "construct"
    /\ Len(controllers) < Len(configs)
    /\ controllers' = Append(controllers,
                             NewController(configs[Len(controllers) + 1], evbits))
    /\ sent' = Append(sent, <<>>)
    /\ UNCHANGED <<pc, configs, evbits, held, e, kbgrab, grab,
                   leftctrl, f1, doGrabChangeReached, run, chord,
                   calls, hist>>

ConstructDone ==
    /\ pc = "construct"
    /\ Len(controllers) = Len(configs)
    /\ pc' = "create"
    /\ UNCHANGED <<configs, evbits, held, controllers, sent, e, kbgrab, grab,
                   leftctrl, f1, doGrabChangeReached, run, chord,
                   calls, hist>>

\* The controllers whose uinput device exists.
Created == {i \in 1..Len(controllers) : controllers[i].uinput}

\* c.create() succeeds for the next controller of the list
CreateOk ==
    /\ pc = "create"
    /\ Cardinality(Created) < Len(controllers)
    /\ controllers' = [controllers EXCEPT ![Cardinality(Created) + 1].uinput = TRUE]
    /\ UNCHANGED <<pc, configs, evbits, held, sent, e, kbgrab, grab,
                   leftctrl, f1, doGrabChangeReached, run, chord,
                   calls, hist>>

\* A variant of CreateFail that prints the error and goes on (no return 1).
CreateFailSwallowed ==
    /\ pc = "create"
    /\ Cardinality(Created) < Len(controllers)
    /\ pc' = "loop"
    /\ kbgrab' = TRUE
    /\ grab' = TRUE
    /\ leftctrl' = FALSE
    /\ f1' = FALSE
    /\ doGrabChangeReached' = FALSE
    /\ run' = TRUE
    /\ UNCHANGED <<configs, evbits, held, controllers, sent, e, chord, calls, hist>>

\* c.create() raises OSError: print(e); return 1
CreateFail ==
    /\ pc = "create"
    /\ Cardinality(Created) < Len(controllers)
    /\ pc' = "return1"
    /\ UNCHANGED <<configs, evbits, held, controllers, sent, e, kbgrab, grab,
                   leftctrl, f1, doGrabChangeReached, run, chord,
                   calls, hist>>

\* devkb.grab(); grab = True; leftctrl = False; f1 = False;
\* doGrabChangeReached = False; run = True
StartLoop ==
    /\ pc = "create"
    /\ Cardinality(Created) = Len(controllers)
    /\ pc' = "loop"
    /\ kbgrab' = TRUE
    /\ grab' = TRUE
    /\ leftctrl' = FALSE
    /\ f1' = FALSE
    /\ doGrabChangeReached' = FALSE
    /\ run' = TRUE
    /\ UNCHANGED <<configs, evbits, held, controllers, sent, e, chord, calls, hist>>

----------------------------------------------------------------------------
(* main: the dispatch loop *)

\* A variant of HeldAfter that takes only a press, not an autorepeat, as held.
HeldAfterPressOnly(v) == v = 1

\* leftctrl = False if e.value == 0 else True (and the same for f1)
HeldAfter(v) == v # 0

\* A variant of ToggleFires that forgets the test of f1.
ToggleFiresIgnoringF1(lc, f, pending) == ~lc /\ pending

\* if not leftctrl and not f1 and doGrabChangeReached
ToggleFires(lc, f, pending) == ~lc /\ ~f /\ pending

\* A variant of Quits that forgets the test of the event's value.
QuitsOnAnyValue(v, lc) == lc

\* if e.value == 1 and leftctrl
Quits(v, lc) == v = 1 /\ lc

\* A variant of Arms that forgets the test of leftctrl.
ArmsWithoutCtrl(f, lc) == f

\* if f1 and leftctrl
Arms(f, lc) == f /\ lc

\* The keyboard delivers the events of a key in order: a press of a key that
\* is up, a repeat or a release of a key that is down.
NextEvents ==
    {ev \in [code : Keys, value : {0, 1, 2}] :
        IF ev.value = 1 THEN ev.code \notin held ELSE ev.code \in held}

\* The observer of one hold of the modifier key, used to state the hot-key
\* properties; it is not read by the program.  phase: "idle" (modifier up),
\* "dirty" (modifier pressed while the toggle key was down), "clean"
\* (modifier pressed while the toggle key was up), "chorded" (a clean hold in
\* which the toggle key has been pressed), "done" (the cycle that released
\* the modifier of a chorded hold with the toggle key up).  flips counts the
\* flips of `grab` since the modifier was pressed.
ChordAfter(ch, ev, flipped) ==
    LET n == IF flipped /\ ch.flips < 2 THEN ch.flips + 1 ELSE ch.flips
    IN  IF ev.code = "KEY_LEFTCTRL" /\ ev.value = 1
        THEN [phase |-> IF "KEY_F1" \in held THEN "dirty" ELSE "clean", flips |-> 0]
        ELSE IF ev.code = "KEY_LEFTCTRL" /\ ev.value = 0
        THEN IF ch.phase = "chorded" /\ "KEY_F1" \notin held
             THEN [phase |-> "done", flips |-> n]
             ELSE [phase |-> "idle", flips |-> 0]
        ELSE IF ch.phase = "idle" \/ ch.phase = "done"
        THEN [phase |-> "idle", flips |-> 0]
        ELSE IF ev.code = "KEY_F1" /\ ev.value = 1 /\ ch.phase \in {"clean", "chorded"}
        THEN [phase |-> "chorded", flips |-> n]
        ELSE [phase |-> ch.phase, flips |-> n]

\* The observer of the run, used to state the properties of whole event
\* sequences; it is not read by the program.  off: capture has been disabled
\* at some time.  last[i][js]: the key bound to the axis js of controller i
\* whose press was read last ("NONE" before the first).
HistAfter(h, ev, grabAfter) ==
    [off  |-> h.off \/ ~grabAfter,
     last |-> [i \in 1..Len(controllers) |-> [js \in AbsCaps |->
                 IF /\ ev.value = 1
                    /\ ev.code \in DOMAIN controllers[i].mapping
                    /\ controllers[i].mapping[ev.code].js = js
                 THEN ev.code
                 ELSE IF i \in DOMAIN h.last THEN h.last[i][js] ELSE "NONE"]]]

\* A variant of Offered that tests `not grab`.
OfferedInverted(g, n) == IF ~g THEN [i \in 1..n |-> i] ELSE <<>>

\* A variant of Offered that forgets the test of grab.
OfferedAlways(g, n) == [i \in 1..n |-> i]

\* if grab: for c in controllers: c.fire(e) -- the controllers (by index in
\* the list) whose fire is called, in the order of the calls
Offered(g, n) == IF g THEN [i \in 1..n |-> i] ELSE <<>>

\* A variant of GrabCall with grab and ungrab exchanged.
GrabCallSwapped(g) == ~g

\* devkb.grab() if grab else devkb.ungrab(): the grab status of the device
GrabCall(g) == g

\* One cycle of `for e in devkb.events()`: the whole loop body for event ev.
Dispatch(ev) ==
    /\ pc = "loop"
    /\ run
    /\ ev \in NextEvents
    /\ held' = IF ev.value = 0 THEN held \ {ev.code} ELSE held \cup {ev.code}
    /\ e' = ev
    /\ calls' = Offered(grab, Len(controllers))
    /\ LET called == {calls'[j] : j \in DOMAIN calls'}
           fired == [i \in 1..Len(controllers) |->
                        IF i \in called THEN Fire(controllers[i], ev)
                        ELSE [ctl |-> controllers[i], out |-> <<>>]]
       IN  /\ controllers' = [i \in 1..Len(controllers) |-> fired[i].ctl]
           /\ sent' = [i \in 1..Len(controllers) |-> fired[i].out]
    /\ IF ev.code = "KEY_LEFTCTRL"
       THEN /\ leftctrl' = HeldAfter(ev.value)
            /\ IF ToggleFires(leftctrl', f1, doGrabChangeReached)
               THEN /\ doGrabChangeReached' = FALSE
                    /\ grab' = ~grab
                    /\ kbgrab' = GrabCall(grab')
               ELSE UNCHANGED <<doGrabChangeReached, grab, kbgrab>>
            /\ UNCHANGED <<f1, run, pc>>
       ELSE IF ev.code = "KEY_ESC"
       THEN /\ IF Quits(ev.value, leftctrl)
               THEN run' = FALSE /\ pc' = "return0"
               ELSE UNCHANGED <<run, pc>>
            /\ UNCHANGED <<leftctrl, f1, doGrabChangeReached, grab, kbgrab>>
       ELSE IF ev.code = "KEY_F1"
       THEN /\ f1' = HeldAfter(ev.value)
            /\ doGrabChangeReached' =
                   IF Arms(f1', leftctrl) THEN TRUE ELSE doGrabChangeReached
            /\ UNCHANGED <<leftctrl, grab, kbgrab, run, pc>>
       ELSE UNCHANGED <<leftctrl, f1, doGrabChangeReached, grab, kbgrab, run, pc>>
    /\ chord' = ChordAfter(chord, ev, grab' # grab)
    /\ hist' = HistAfter(hist, ev, grab')
    /\ UNCHANGED <<configs, evbits>>

\* devkb.events() raises (the device is gone): the exception leaves main.
SourceIOError ==
    /\ pc = "loop"
    /\ pc' = "crashed"
    /\ UNCHANGED <<configs, evbits, held, controllers, sent, e, kbgrab, grab,
                   leftctrl, f1, doGrabChangeReached, run, chord,
                   calls, hist>>

----------------------------------------------------------------------------
(* Specifications *)

NoFlags ==
    /\ sent = <<>>
    /\ e = NoEvent
    /\ chord = [phase |-> "idle", flips |-> 0]
    /\ calls = <<>>
    /\ hist = [off |-> FALSE, last |-> <<>>]
    /\ controllers = <<>>
    /\ kbgrab = FALSE
    /\ grab = FALSE
    /\ leftctrl = FALSE
    /\ f1 = FALSE
    /\ doGrabChangeReached = FALSE
    /\ run = FALSE

\* main after argument parsing and open(path): the user may still hold the
\* key that launched the program.
Init ==
    /\ pc = "wait"
    /\ configs = Configs
    /\ evbits = KbKeys
    /\ held \in {{}, {"KEY_ENTER"}}
    /\ NoFlags

Next ==
    \/ \E k \in KbKeys : KbChange(k)
    \/ PollSleep
    \/ PollDone
    \/ Construct
    \/ ConstructDone
    \/ CreateOk
    \/ CreateFail
    \/ StartLoop
    \/ \E ev \in [code : Keys, value : {0, 1, 2}] : Dispatch(ev)
    \/ SourceIOError

Spec == Init /\ [][Next]_vars

\* main polls the keys every 10 ms (time.sleep(0.01)): when no key is down
\* from some poll on, the next call of anyKeyPressed returns False and the
\* wait ends.
SpecFair == Spec /\ WF_vars(PollDone)

\* parseFile alone: one controller is constructed from a config of one line
\* that binds n keys, all of them keys of the keyboard, to one capability.
KeyList(n) == [i \in 1..n |-> i]

InitParse ==
    /\ pc = "construct"
    /\ \E n \in 1..MaxKeys, cap \in DefinedCaps :
          /\ configs = << << [var |-> cap, keys |-> KeyList(n)] >> >>
          /\ evbits = 1..n
    /\ held = {}
    /\ NoFlags

NextParse == Construct \/ ConstructDone

SpecParse == InitParse /\ [][NextParse]_vars

----------------------------------------------------------------------------
(* Vocabulary of the properties *)

\* A step that is one cycle of the dispatch loop; e' is the event it handled.
Cycle == pc = "loop" /\ run /\ pc' \in {"loop", "return0"}

Ctls == 1..Len(controllers)
Bound(i) == DOMAIN controllers[i].mapping
Js(i, k) == controllers[i].mapping[k].js
Press(i, k) == controllers[i].mapping[k].val[1]
AxisKeys(i) == {k \in Bound(i) : CapType(Js(i, k)) = "EV_ABS"}
ButtonKeys(i) == {k \in Bound(i) : CapType(Js(i, k)) = "EV_KEY"}
Stored(i, js) == controllers[i].value[js]
StoredAfter(i, js) == controllers'[i].value[js]
Ev(k, v) == [code |-> k, value |-> v]
\* What a sink gets for one output event: the event and the sync marker.
Out(js, v) == << [code |-> js, value |-> v], SynReport >>

----------------------------------------------------------------------------
(* C1 *)

\* C1: with fire called (capture enabled), the release of a key bound to an
\* axis is sent on (with value 0) exactly when the stored value of the axis is
\* the key's own press value, and otherwise nothing is sent and nothing is
\* stored.  For two keys l, r of one axis: press(l) from neutral sends l's
\* press value, press(r) then sends r's, release(l) then sends nothing and
\* release(r) then sends 0.
C1_ReleaseSuppression ==
    [][Cycle /\ grab =>
        \A i \in Ctls :
            /\ \A k \in AxisKeys(i) :
                  e' = Ev(k, 0) =>
                     IF Stored(i, Js(i, k)) = Press(i, k)
                     THEN /\ sent'[i] = Out(Js(i, k), 0)
                          /\ StoredAfter(i, Js(i, k)) = 0
                     ELSE /\ sent'[i] = <<>>
                          /\ controllers'[i] = controllers[i]
            /\ \A l \in AxisKeys(i), r \in AxisKeys(i) :
                  (l # r /\ Js(i, l) = Js(i, r)) =>
                     LET js == Js(i, l) IN
                     /\ (e' = Ev(l, 1) /\ Stored(i, js) = 0) =>
                            /\ sent'[i] = Out(js, Press(i, l))
                            /\ StoredAfter(i, js) = Press(i, l)
                     /\ (e' = Ev(r, 1) /\ Stored(i, js) = Press(i, l)) =>
                            /\ sent'[i] = Out(js, Press(i, r))
                            /\ StoredAfter(i, js) = Press(i, r)
                     /\ (e' = Ev(l, 0) /\ Stored(i, js) = Press(i, r)) =>
                            /\ sent'[i] = <<>>
                            /\ StoredAfter(i, js) = Press(i, r)
                     /\ (e' = Ev(r, 0) /\ Stored(i, js) = Press(i, r)) =>
                            /\ sent'[i] = Out(js, 0)
                            /\ StoredAfter(i, js) = 0
    ]_vars

\* The release of KEY_LEFT was suppressed while KEY_RIGHT holds the axis.
C1_Witness ==
    /\ pc = "loop"
    /\ grab
    /\ e = Ev("KEY_LEFT", 0)
    /\ "KEY_RIGHT" \in held
    /\ sent[1] = <<>>
    /\ controllers[1].value["ABS_X"] = Press(1, "KEY_RIGHT")
    /\ Press(1, "KEY_RIGHT") # Press(1, "KEY_LEFT")

----------------------------------------------------------------------------
(* C2 *)

\* C2: with capture enabled, a press (1) or release (0) of a key bound to a
\* button is always sent on, as (button, 1) + SYN_REPORT and
\* (button, 0) + SYN_REPORT, whatever value is stored; so the release that
\* follows a press is sent after it, with values 1 then 0.
C2_ButtonNeverSuppressed ==
    [][Cycle /\ grab =>
        \A i \in Ctls : \A k \in ButtonKeys(i) :
            /\ e' = Ev(k, 1) =>
                  /\ sent'[i] = Out(Js(i, k), 1)
                  /\ StoredAfter(i, Js(i, k)) = 1
            /\ e' = Ev(k, 0) =>
                  /\ sent'[i] = Out(Js(i, k), 0)
                  /\ StoredAfter(i, Js(i, k)) = 0
    ]_vars

\* KEY_SPACE was released and (BTN_A, 0) + SYN_REPORT went to the first sink.
C2_Witness ==
    /\ pc = "loop"
    /\ grab
    /\ e = Ev("KEY_SPACE", 0)
    /\ sent[1] = Out("BTN_A", 0)

----------------------------------------------------------------------------
(* C3 *)

\* C3: a controller is sent an output event only for an event whose code is
\* in its mapping and whose value is 0 or 1; an autorepeat (value 2) and an
\* event of an unbound code send nothing and leave the controller as it was,
\* with capture enabled or disabled.
C3_OnlyBoundPressRelease ==
    [][Cycle =>
        \A i \in Ctls :
            /\ sent'[i] # <<>> => (e'.code \in Bound(i) /\ e'.value \in {0, 1})
            /\ (e'.value = 2 \/ e'.code \notin Bound(i)) =>
                  /\ sent'[i] = <<>>
                  /\ controllers'[i] = controllers[i]
    ]_vars

\* An autorepeat of the bound key KEY_SPACE was handled with capture enabled
\* and nothing was sent.
C3_Witness ==
    /\ pc = "loop"
    /\ grab
    /\ e = Ev("KEY_SPACE", 2)
    /\ "KEY_SPACE" \in Bound(1)
    /\ sent[1] = <<>>
    /\ sent[2] = <<>>

----------------------------------------------------------------------------
(* C4 *)

\* C4 as stated: in every cycle a controller's stored values change if and
\* only if an output event is sent to its sink.
C4_Original ==
    [][Cycle =>
        \A i \in Ctls :
            (controllers'[i].value # controllers[i].value) <=> (sent'[i] # <<>>)
    ]_vars

\* C4 as amended: the stored values change only if an output event is sent;
\* when one is sent, the stored value of its capability is the value sent
\* (which may be the value stored before) and no other stored value changes;
\* when none is sent, the controller is unchanged.
C4_StoredIffSent ==
    [][Cycle =>
        \A i \in Ctls :
            /\ (controllers'[i].value # controllers[i].value) => (sent'[i] # <<>>)
            /\ (sent'[i] # <<>>) =>
                  /\ StoredAfter(i, sent'[i][1].code) = sent'[i][1].value
                  /\ \A js \in DefinedCaps :
                        js # sent'[i][1].code => StoredAfter(i, js) = Stored(i, js)
            /\ (sent'[i] = <<>>) => controllers'[i] = controllers[i]
    ]_vars

\* An axis event was sent to the first sink and its value is the stored one.
C4_Witness ==
    /\ pc = "loop"
    /\ e = Ev("KEY_RIGHT", 1)
    /\ sent[1] # <<>>
    /\ sent[1][1].code = "ABS_X"
    /\ controllers[1].value["ABS_X"] = sent[1][1].value
    /\ controllers[1].value["ABS_X"] # 0

----------------------------------------------------------------------------
(* C5 *)

\* C5 as stated: for ABS_X=KEY_LEFT,KEY_RIGHT pressing KEY_LEFT sends -500 and
\* pressing KEY_RIGHT sends 500.
C5_Original ==
    [][Cycle /\ grab =>
        /\ e' = Ev("KEY_LEFT", 1) => sent'[1] = Out("ABS_X", -500)
        /\ e' = Ev("KEY_RIGHT", 1) => sent'[1] = Out("ABS_X", 500)
    ]_vars

\* C5 as amended: the config line of the first controller is
\* ABS_X=KEY_LEFT,KEY_RIGHT; pressing KEY_LEFT sends -1000 and pressing
\* KEY_RIGHT sends 1000.
C5_LeftRightValues ==
    [][Cycle /\ grab =>
        /\ configs[1][3] = [var |-> "ABS_X", keys |-> <<"KEY_LEFT", "KEY_RIGHT">>]
        /\ e' = Ev("KEY_LEFT", 1) => sent'[1] = Out("ABS_X", -1000)
        /\ e' = Ev("KEY_RIGHT", 1) => sent'[1] = Out("ABS_X", 1000)
    ]_vars

\* KEY_LEFT was pressed and (ABS_X, -1000) went to the first sink.
C5_Witness ==
    /\ pc = "loop"
    /\ e = Ev("KEY_LEFT", 1)
    /\ sent[1] = Out("ABS_X", -1000)

----------------------------------------------------------------------------
(* C6 and C7: parseFile on one config line of n keys (SpecParse) *)

\* The one config line of SpecParse, and what parseFile made of it.
ParsedLine == configs[1][1]
NKeys == Len(ParsedLine.keys)
Parsed == Len(controllers) = 1
IsAxisLine == CapType(ParsedLine.var) = "EV_ABS"
PressOf(k) == controllers[1].mapping[k].val[1]
PressValues == {PressOf(k) : k \in DOMAIN controllers[1].mapping}
Symmetric(S) == \A v \in S : (0 - v) \in S

\* C6: for an axis line of n distinct supported keys every key is bound, the
\* press values are pairwise distinct and none of them is the rest value 0.
C6_DistinctNonZero ==
    (Parsed /\ IsAxisLine) =>
        /\ DOMAIN controllers[1].mapping = 1..NKeys
        /\ \A k1 \in 1..NKeys, k2 \in 1..NKeys : k1 # k2 => PressOf(k1) # PressOf(k2)
        /\ \A k \in 1..NKeys : PressOf(k) # 0

\* What does hold of the code: the press values are pairwise distinct for
\* every n of the model, and none is 0 for the lines of fewer than 49 keys.
C6_Below49 ==
    (Parsed /\ IsAxisLine) =>
        /\ DOMAIN controllers[1].mapping = 1..NKeys
        /\ \A k1 \in 1..NKeys, k2 \in 1..NKeys : k1 # k2 => PressOf(k1) # PressOf(k2)
        /\ NKeys < 49 => \A k \in 1..NKeys : PressOf(k) # 0

\* C7 as stated: for an axis line of n keys, every n >= 1, the set of press
\* values is symmetric around 0.
C7_Original == (Parsed /\ IsAxisLine) => Symmetric(PressValues)

\* C7 as amended: the set of press values of an axis line of n keys is
\* symmetric around 0 exactly when n is even and divides the width of the
\* range, 2000.
C7_SymmetricIffEvenDivisor ==
    (Parsed /\ IsAxisLine) =>
        (Symmetric(PressValues) <=>
            (NKeys % 2 = 0 /\ (AbsMax - AbsMin) % NKeys = 0))

\* An axis line of four keys was parsed into -1000, -500, 500, 1000.
C7_Witness ==
    /\ Parsed
    /\ IsAxisLine
    /\ NKeys = 4
    /\ PressValues = {-1000, -500, 500, 1000}

----------------------------------------------------------------------------
(* C8 *)

\* C8: during a hold of the modifier key that began with the toggle key up,
\* no flip of capture happens before the modifier is released, however many
\* press, autorepeat and release events of the toggle key there are; and the
\* cycle that releases the modifier, after at least one press of the toggle
\* key and with the toggle key up, flips capture: exactly one flip, in that
\* cycle.
C8_OneFlipAtModifierRelease ==
    /\ chord.phase \in {"clean", "chorded"} => chord.flips = 0
    /\ chord.phase = "done" =>
          /\ chord.flips = 1
          /\ e = Ev("KEY_LEFTCTRL", 0)
          /\ ~doGrabChangeReached

\* The modifier of a chorded hold was just released, and capture is now off.
C8_Witness ==
    /\ pc = "loop"
    /\ chord.phase = "done"
    /\ e = Ev("KEY_LEFTCTRL", 0)
    /\ ~grab
    /\ ~kbgrab

----------------------------------------------------------------------------
(* C9 *)

\* C9: capture flips in a cycle exactly when the event is the release of the
\* modifier key, a toggle is pending and the toggle key is not held; the flip
\* clears the pending toggle; a release of the modifier while the toggle key
\* is held flips nothing and leaves the toggle pending.
C9_FlipIffModifierRelease ==
    [][Cycle =>
        /\ (grab' # grab) <=>
              /\ e' = Ev("KEY_LEFTCTRL", 0)
              /\ doGrabChangeReached
              /\ "KEY_F1" \notin held
              /\ ~f1
        /\ (grab' # grab) => ~doGrabChangeReached'
        /\ (e' = Ev("KEY_LEFTCTRL", 0) /\ doGrabChangeReached /\ "KEY_F1" \in held) =>
              /\ grab' = grab
              /\ doGrabChangeReached'
    ]_vars

\* The release of the modifier was translated by the second controller
\* (capture was on when the cycle began) and capture is off after it.
C9_Witness ==
    /\ pc = "loop"
    /\ e = Ev("KEY_LEFTCTRL", 0)
    /\ sent[2] = Out("BTN_B", 0)
    /\ ~grab
    /\ ~doGrabChangeReached

----------------------------------------------------------------------------
(* C10 *)

\* C10 as stated: a toggle becomes pending only in a cycle where the toggle
\* key goes from released to pressed while the modifier key is held.
C10_Original ==
    [][Cycle =>
        ((~doGrabChangeReached /\ doGrabChangeReached') =>
            /\ e' = Ev("KEY_F1", 1)
            /\ "KEY_F1" \notin held
            /\ "KEY_LEFTCTRL" \in held)
    ]_vars

\* C10 as amended: a toggle becomes pending exactly in the cycles whose event
\* is a press or an autorepeat of the toggle key while the modifier key is
\* held (and none was pending); an event of the toggle key while the modifier
\* is not held arms nothing.
C10_ArmedByPressOrRepeat ==
    [][Cycle =>
        ((~doGrabChangeReached /\ doGrabChangeReached') <=>
            /\ ~doGrabChangeReached
            /\ e'.code = "KEY_F1"
            /\ e'.value \in {1, 2}
            /\ leftctrl
            /\ "KEY_LEFTCTRL" \in held)
    ]_vars

\* The modifier was pressed while the toggle key was down, and an autorepeat
\* of the toggle key has left a toggle pending.
C10_Witness ==
    /\ pc = "loop"
    /\ chord.phase = "dirty"
    /\ e = Ev("KEY_F1", 2)
    /\ doGrabChangeReached
    /\ grab

-----------------------------------------------------------------------------
(* C11 *)

\* Every controller, in the order of the list.
InOrder == [i \in Ctls |-> i]
\* Controller i was given the event of the cycle: its new state and what its
\* sink got are the result of fire on its old state.
Translated(i) == [ctl |-> controllers'[i], out |-> sent'[i]] = Fire(controllers[i], e')
\* Controller i was not given the event: it is unchanged and its sink got nothing.
Untouched(i) == controllers'[i] = controllers[i] /\ sent'[i] = <<>>

\* C11 as stated: the event of a cycle that flips capture is the release of
\* the modifier key and updates the hot-key state; no controller translates
\* it when the flip disables capture, and every controller translates it when
\* the flip enables capture.
C11_Original ==
    [][(Cycle /\ grab' # grab) =>
        /\ e' = Ev("KEY_LEFTCTRL", 0)
        /\ ~leftctrl'
        /\ ~grab' => (calls' = <<>> /\ \A i \in Ctls : Untouched(i))
        /\ grab' => (calls' = InOrder /\ \A i \in Ctls : Translated(i))
    ]_vars

\* C11 as amended: the event of a cycle that flips capture is the release of
\* the modifier key and updates the hot-key state; the controllers are called
\* before the flip, so every controller translates it when the flip disables
\* capture and no controller translates it when the flip enables capture; in
\* every cycle each controller is called once if capture was enabled when the
\* cycle began and not at all otherwise.
C11_TranslatedUnderOldCapture ==
    [][Cycle =>
        /\ (grab' # grab) => (e' = Ev("KEY_LEFTCTRL", 0) /\ ~leftctrl')
        /\ (grab /\ ~grab') => (calls' = InOrder /\ \A i \in Ctls : Translated(i))
        /\ (~grab /\ grab') => (calls' = <<>> /\ \A i \in Ctls : Untouched(i))
        /\ grab => (calls' = InOrder /\ \A i \in Ctls : Translated(i))
        /\ ~grab => (calls' = <<>> /\ \A i \in Ctls : Untouched(i))
    ]_vars

\* The release of the modifier has just enabled capture again and no
\* controller was called with it.
C11_Witness ==
    /\ pc = "loop"
    /\ e = Ev("KEY_LEFTCTRL", 0)
    /\ grab
    /\ hist.off
    /\ chord.phase = "done"
    /\ chord.flips = 1
    /\ calls = <<>>
    /\ \A i \in Ctls : sent[i] = <<>>

-----------------------------------------------------------------------------
(* C12 *)

\* C12: the loop ends with exit code 0 in exactly the cycles whose event is
\* a press (value 1) of KEY_ESC while the modifier is tracked as held, with
\* capture on or off; an autorepeat or a release of KEY_ESC, or a press of it
\* without the modifier, does not end it; main returns 0 only from such a
\* cycle, and after it no event is read and nothing changes.
C12_QuitIffEscPressWithModifier ==
    /\ [][Cycle =>
            /\ (pc' = "return0") <=> (e' = Ev("KEY_ESC", 1) /\ leftctrl)
            /\ (pc' = "return0") <=> ~run'
            /\ (e'.code = "KEY_ESC" /\ (e'.value # 1 \/ ~leftctrl)) => (pc' = "loop" /\ run')
         ]_vars
    /\ [][(pc' = "return0" /\ pc # "return0") => Cycle]_vars
    /\ [][(pc = "return0") => UNCHANGED vars]_vars

\* main has returned 0 on the quit chord while capture was off: the press of
\* KEY_ESC was not translated.
C12_Witness ==
    /\ pc = "return0"
    /\ ~run
    /\ e = Ev("KEY_ESC", 1)
    /\ leftctrl
    /\ ~grab
    /\ calls = <<>>

-----------------------------------------------------------------------------
(* C13 *)

\* C13: when the creation of a controller's sink fails, main returns 1: the
\* keyboard is not grabbed, no event has been read or translated, and nothing
\* happens afterwards; the failure is the only way out of the creation stage
\* other than the dispatch loop, and the loop begins, and runs, only with the
\* sink of every configured controller created.
C13_FailedCreateNeverDispatches ==
    /\ [](pc = "return1" =>
            /\ ~kbgrab
            /\ ~run
            /\ e = NoEvent
            /\ calls = <<>>
            /\ \A i \in Ctls : sent[i] = <<>>
            /\ \A i \in Ctls : \A js \in DefinedCaps : Stored(i, js) = 0
            /\ \E i \in Ctls : ~controllers[i].uinput)
    /\ [](pc \in {"loop", "return0", "crashed"} =>
            /\ Len(controllers) = Len(configs)
            /\ \A i \in Ctls : controllers[i].uinput)
    /\ [][(pc = "create" /\ pc' # "create") =>
            \/ pc' = "return1" /\ \E i \in Ctls : ~controllers[i].uinput
            \/ pc' = "loop" /\ kbgrab' /\ \A i \in Ctls : controllers[i].uinput
         ]_vars
    /\ [][(pc = "return1") => UNCHANGED vars]_vars

\* The sink of the second controller could not be created, after the first
\* one's was: main has returned 1 without grabbing the keyboard.
C13_Witness ==
    /\ pc = "return1"
    /\ Len(controllers) = 2
    /\ controllers[1].uinput
    /\ ~controllers[2].uinput
    /\ ~kbgrab
    /\ e = NoEvent

-----------------------------------------------------------------------------
(* C14 *)

C14_EarlierSinksStayLive ==
    /\ [](pc = "return1" =>
            \E k \in Ctls : Created = 1..(k - 1))
    /\ [][(pc = "create" /\ pc' = "return1") => controllers' = controllers]_vars

-----------------------------------------------------------------------------
(* C15 *)

\* The keys of the keyboard that are down.
KeysDown == held \cap evbits

\* C15: while main waits for the keys to be released there is no controller
\* and no sink, the keyboard is not grabbed and no event has been read or
\* translated; main leaves the wait only from a state where every key of the
\* keyboard is up, and stays in it while a key is down; and if the keys stay
\* up from some time on, main leaves the wait.
C15_WaitsForAllKeysUp ==
    /\ [](pc = "wait" =>
            /\ controllers = <<>>
            /\ sent = <<>>
            /\ ~kbgrab
            /\ ~run
            /\ e = NoEvent
            /\ calls = <<>>)
    /\ [][(pc = "wait" /\ pc' # "wait") => (KeysDown = {} /\ held' = held)]_vars
    /\ [][(pc = "wait" /\ KeysDown # {}) => pc' = "wait"]_vars
    /\ (<>[](KeysDown = {})) => <>(pc # "wait")

\* The wait has ended: no key is down, the controllers are about to be made,
\* and nothing has been created, grabbed or read so far.
C15_Witness ==
    /\ pc = "construct"
    /\ KeysDown = {}
    /\ controllers = <<>>
    /\ ~kbgrab

-----------------------------------------------------------------------------
(* C16 *)

\* C16: in every state of the dispatch loop the flag grab agrees with the
\* exclusive grab of the keyboard; the keyboard is grabbed, with grab set,
\* when the loop begins; a flip of grab to True grabs it and a flip to False
\* releases it; the grab status changes in no other step.
C16_CaptureFlagIsGrabStatus ==
    /\ [](pc = "loop" => kbgrab = grab)
    /\ [][(pc # "loop" /\ pc' = "loop") => (grab' /\ kbgrab')]_vars
    /\ [][Cycle =>
            /\ (~grab /\ grab') => (~kbgrab /\ kbgrab')
            /\ (grab /\ ~grab') => (kbgrab /\ ~kbgrab')
            /\ (grab' = grab) => (kbgrab' = kbgrab)
         ]_vars
    /\ [][(kbgrab' # kbgrab) =>
            \/ pc = "create" /\ pc' = "loop"
            \/ Cycle /\ grab' # grab
         ]_vars

\* Capture has been disabled and enabled again: the keyboard, released in
\* between, is grabbed again.
C16_Witness ==
    /\ pc = "loop"
    /\ hist.off
    /\ grab
    /\ kbgrab
    /\ e = Ev("KEY_LEFTCTRL", 0)
    /\ ~doGrabChangeReached
    /\ calls = <<>>

-----------------------------------------------------------------------------
(* C17 *)

\* The keys of controller i bound to the axis js.
Group(i, js) == {k \in AxisKeys(i) : Js(i, k) = js}

\* C17 as stated: in no cycle does a sink get the value 0 for an axis while
\* another key of the axis's group is still held.
C17_Original ==
    [][Cycle =>
        \A i \in Ctls : \A js \in AbsCaps :
            (sent'[i] = Out(js, 0)) =>
                \A k \in Group(i, js) \ {e'.code} : k \notin held'
    ]_vars

\* C17 as amended: the release of an axis-group key, translated while another
\* key of the group is still held, sends the value 0 exactly when the stored
\* value of the axis is the released key's own press value, and sends nothing
\* otherwise; while capture has never been disabled, that is exactly when the
\* released key is the one of the group that was pressed last.
C17_ZeroIffOwnPressStored ==
    [][(Cycle /\ grab) =>
        \A i \in Ctls : \A k \in AxisKeys(i) :
            (e' = Ev(k, 0) /\ (Group(i, Js(i, k)) \ {k}) \cap held' # {}) =>
                /\ (sent'[i] = Out(Js(i, k), 0)) <=> (Stored(i, Js(i, k)) = Press(i, k))
                /\ (sent'[i] = <<>>) <=> (Stored(i, Js(i, k)) # Press(i, k))
                /\ ~hist.off =>
                      ((sent'[i] = Out(Js(i, k), 0)) <=> (hist.last[i][Js(i, k)] = k))
    ]_vars

\* After press(left), press(right), release(right) with capture on all the
\* time, the first sink got the value 0 for the axis while left is held.
C17_Witness ==
    /\ pc = "loop"
    /\ ~hist.off
    /\ e = Ev("KEY_RIGHT", 0)
    /\ "KEY_LEFT" \in held
    /\ hist.last[1]["ABS_X"] = "KEY_RIGHT"
    /\ sent[1] = Out("ABS_X", 0)
    /\ Stored(1, "ABS_X") = 0

-----------------------------------------------------------------------------
(* C18 *)

\* C18: a cycle that begins with capture disabled calls the fire of no
\* controller, sends nothing to any sink and changes no controller (its
\* mapping, stored values and sink); of the program's state only leftctrl, f1,
\* doGrabChangeReached, grab (with the grab of the keyboard) and run (with
\* the return) may change.  A cycle that begins with capture enabled calls
\* the fire of every controller once, in the order of the list, with the
\* event of the cycle.
C18_SilentWhileCaptureOff ==
    [][Cycle =>
        /\ ~grab =>
              /\ calls' = <<>>
              /\ controllers' = controllers
              /\ \A i \in Ctls : sent'[i] = <<>>
              /\ configs' = configs
              /\ evbits' = evbits
        /\ grab =>
              /\ calls' = InOrder
              /\ Len(controllers') = Len(controllers)
              /\ \A i \in Ctls : Translated(i)
    ]_vars

\* A key bound by both controllers was pressed while capture was off: no
\* sink got anything and the stored values are still at rest.
C18_Witness ==
    /\ pc = "loop"
    /\ ~grab
    /\ e = Ev("KEY_LEFT", 1)
    /\ calls = <<>>
    /\ \A i \in Ctls : sent[i] = <<>>
    /\ Stored(1, "ABS_X") = 0
    /\ Stored(2, "ABS_Y") = 0

-----------------------------------------------------------------------------
(* C19 *)

\* The keys of controller i bound to the capability js (a button or an axis).
KeysOf(i, js) == {k \in Bound(i) : Js(i, k) = js}

\* C19: in every state of the dispatch loop, capture toggles included, when
\* every key bound to a capability of a controller is released, the last
\* value the controller sent for the capability (its stored value) is 0.
C19_ReleasedMeansNeutral ==
    pc = "loop" =>
        \A i \in Ctls : \A js \in DefinedCaps :
            (KeysOf(i, js) \cap held = {}) => Stored(i, js) = 0

\* KEY_SPACE was pressed while capture was on and released while it was off:
\* the release was not translated and BTN_A of the first controller is still
\* asserted with no key held.
C19_Witness ==
    /\ pc = "loop"
    /\ ~grab
    /\ e = Ev("KEY_SPACE", 0)
    /\ calls = <<>>
    /\ held = {}
    /\ Stored(1, "BTN_A") = 1

-----------------------------------------------------------------------------
(* C20 *)

\* The key of the group of axis js of controller i whose press was read last.
LastKey(i, js) == IF i \in DOMAIN hist.last THEN hist.last[i][js] ELSE "NONE"

\* C20: while capture has been enabled all the time, in every state of the
\* dispatch loop the stored value of each axis that has keys is 0 or the
\* press value of the key of its group that was pressed last, and it is 0
\* whenever no key of the group is held.
C20_AxisNeutralOrLastPressed ==
    (pc = "loop" /\ ~hist.off) =>
        \A i \in Ctls : \A js \in AbsCaps :
            Group(i, js) # {} =>
                /\ \/ Stored(i, js) = 0
                   \/ /\ LastKey(i, js) \in Group(i, js)
                      /\ Stored(i, js) = Press(i, LastKey(i, js))
                /\ (Group(i, js) \cap held = {}) => Stored(i, js) = 0

\* Releases out of order with capture on all the time: left then right were
\* pressed and left was released first; its release was suppressed and the
\* axes keep the press values of right, the key pressed last.
C20_Witness ==
    /\ pc = "loop"
    /\ ~hist.off
    /\ calls = InOrder
    /\ e = Ev("KEY_LEFT", 0)
    /\ "KEY_RIGHT" \in held
    /\ LastKey(1, "ABS_X") = "KEY_RIGHT"
    /\ sent[1] = <<>>
    /\ Stored(1, "ABS_X") = 1000
    /\ Stored(2, "ABS_Y") = 998

====
